---- MODULE Spec2Model ----
(***************************************************************************)
(* Model of the agentic content repurposer: the heuristic tools of         *)
(* src/src/tools.py (whitespace normaliser, platform formatter, quality    *)
(* scorer), the retrying model call of src/src/agents.py and the pipeline  *)
(* of src/src/main.py.                                                     *)
(*                                                                         *)
(* A text is a sequence of one-character strings.  A score or a dimension  *)
(* value is an integer number of hundredths (0.85 is 85).                  *)
(***************************************************************************)
EXTENDS Integers, Sequences, FiniteSets, TLC

VARIABLES
    tool,        \* the tool a direct call runs
    args,        \* the arguments of that call
    returned,    \* whether the call has returned
    result       \* the dictionary the call returned

toolVars == <<tool, args, returned, result>>

VARIABLES
    pc,               \* where main / run_content_repurposer stands
    user_brief,       \* the brief read by main
    attempt,          \* run_agent: the attempt under way (0 outside run_agent)
    last_error,       \* run_agent: last_error (NoneStr outside run_agent)
    slept,            \* run_agent: the delays slept in this invocation
    agent_result,     \* the text the last run_agent invocation returned
    run_state,        \* run_content_repurposer: run_state (without "scores")
    texts,            \* the locals linkedin_text, instagram_text, email_text
    scores,           \* the dict scores, which run_state["scores"] refers to
    refinements_made, \* the list refinements_made
    events,           \* log: the run_agent invocations, scorings and CSV appends
    csv_file          \* evaluation/test_results.csv: its rows, or NoFile

runVars ==
    <<pc, user_brief, attempt, last_error, slept, agent_result, run_state, texts,
      scores, refinements_made, events, csv_file>>

vars == <<toolVars, runVars>>

\* Python's None, for an optional float held in hundredths.
None == 0 - 1

\* Python's None passed where a str is expected (an absent platform or text).
NoneStr == <<"<None>">>

\* x or ""
OrEmpty(x) == IF x = NoneStr THEN <<>> ELSE x

(***************************************************************************)
(* Characters and strings                                                  *)
(***************************************************************************)

\* The characters str.strip() and the regex class \s treat as whitespace.
Whitespace == {" ", "\n", "\t"}

\* The characters str.splitlines() breaks a line at.
LineBreaks == {"\n"}

UpperLetters ==
    <<"A","B","C","D","E","F","G","H","I","J","K","L","M",
      "N","O","P","Q","R","S","T","U","V","W","X","Y","Z">>

LowerLetters ==
    <<"a","b","c","d","e","f","g","h","i","j","k","l","m",
      "n","o","p","q","r","s","t","u","v","w","x","y","z">>

Digits == {"0","1","2","3","4","5","6","7","8","9"}

\* The regex class \w.
WordChars ==
    {UpperLetters[i] : i \in 1..26} \cup {LowerLetters[i] : i \in 1..26}
        \cup Digits \cup {"_"}

\* str.lower() on one character.
LowerChar(c) ==
    IF \E i \in 1..26 : UpperLetters[i] = c
    THEN LowerLetters[CHOOSE i \in 1..26 : UpperLetters[i] = c]
    ELSE c

\* str.lower()
Lower(s) == [i \in 1..Len(s) |-> LowerChar(s[i])]

Min(a, b) == IF a <= b THEN a ELSE b

Max(a, b) == IF a >= b THEN a ELSE b

\* s[:n] for n >= 0
Take(s, n) == SubSeq(s, 1, Min(n, Len(s)))

\* str.strip()
Strip(s) ==
    IF \A i \in 1..Len(s) : s[i] \in Whitespace THEN <<>>
    ELSE LET lo == CHOOSE i \in 1..Len(s) :
                       s[i] \notin Whitespace /\ \A j \in 1..(i - 1) : s[j] \in Whitespace
             hi == CHOOSE i \in 1..Len(s) :
                       s[i] \notin Whitespace /\ \A j \in (i + 1)..Len(s) : s[j] \in Whitespace
         IN  SubSeq(s, lo, hi)

\* str.startswith(p)
StartsWith(s, p) ==
    /\ Len(p) <= Len(s)
    /\ \A j \in 1..Len(p) : s[j] = p[j]

\* p in s
Contains(s, p) ==
    \E i \in 1..(Len(s) - Len(p) + 1) : \A j \in 1..Len(p) : s[i + j - 1] = p[j]

\* The indices at which a maximal run of characters outside `seps` starts.
RunStarts(s, seps) ==
    {i \in 1..Len(s) : s[i] \notin seps /\ (i = 1 \/ s[i - 1] \in seps)}

\* The end of the run of characters outside `seps` that starts at i.
RunEnd(s, seps, i) ==
    CHOOSE e \in i..Len(s) :
        /\ \A k \in i..e : s[k] \notin seps
        /\ (e = Len(s) \/ s[e + 1] \in seps)

\* The elements of S within lo..hi, in increasing order.
RECURSIVE SortedRange(_, _, _)
SortedRange(S, lo, hi) ==
    IF lo > hi THEN <<>>
    ELSE IF lo = hi THEN (IF lo \in S THEN <<lo>> ELSE <<>>)
    ELSE LET mid == (lo + hi) \div 2
         IN  SortedRange(S, lo, mid) \o SortedRange(S, mid + 1, hi)

\* str.split(): the maximal runs of non-whitespace characters, in order.
Split(s) ==
    LET starts == SortedRange(RunStarts(s, Whitespace), 1, Len(s))
    IN  [k \in 1..Len(starts) |-> SubSeq(s, starts[k], RunEnd(s, Whitespace, starts[k]))]

\* sep.join(parts[lo..hi])
RECURSIVE JoinRange(_, _, _, _)
JoinRange(parts, sep, lo, hi) ==
    IF lo > hi THEN <<>>
    ELSE IF lo = hi THEN parts[lo]
    ELSE LET mid == (lo + hi) \div 2
         IN  JoinRange(parts, sep, lo, mid) \o sep \o JoinRange(parts, sep, mid + 1, hi)

\* sep.join(parts)
Join(parts, sep) == JoinRange(parts, sep, 1, Len(parts))

\* _normalize_whitespace: every whitespace run becomes one space, ends trimmed.
_normalize_whitespace(text) ==
    IF Len(text) = 0 THEN <<>>
    ELSE LET t == Strip(text)
             kept == SortedRange({i \in 1..Len(t) :
                         t[i] \notin Whitespace \/ t[i - 1] \notin Whitespace}, 1, Len(t))
         IN  [k \in 1..Len(kept) |->
                 IF t[kept[k]] \in Whitespace THEN " " ELSE t[kept[k]]]

(***************************************************************************)
(* Platform configuration                                                  *)
(***************************************************************************)

linkedin == <<"l","i","n","k","e","d","i","n">>

instagram == <<"i","n","s","t","a","g","r","a","m">>

email == <<"e","m","a","i","l">>

LINKEDIN_MIN_WORDS == 80

LINKEDIN_MAX_WORDS == 220

INSTAGRAM_MAX_CHARS == 2200

INSTAGRAM_MAX_LINES == 10

EMAIL_MIN_WORDS == 40

EMAIL_MAX_WORDS == 160

\* PLATFORM_CONFIG; a key a platform does not have is left out of its record.
PLATFORM_CONFIG ==
    (linkedin :> [min_words |-> LINKEDIN_MIN_WORDS, max_words |-> LINKEDIN_MAX_WORDS])
    @@ (instagram :> [max_chars |-> INSTAGRAM_MAX_CHARS, max_lines |-> INSTAGRAM_MAX_LINES])
    @@ (email :> [min_words |-> EMAIL_MIN_WORDS, max_words |-> EMAIL_MAX_WORDS])

(***************************************************************************)
(* quality_and_reach_scorer                                                *)
(***************************************************************************)

\* The literal the scorer looks for: "[FALLBACK]".
FALLBACK_TAG == <<"[","F","A","L","L","B","A","C","K","]">>

SHORT_TEXT_WORDS == 15

INSTAGRAM_SHORT_WORDS == 10

INSTAGRAM_LONG_WORDS == 120

HASHTAGS_RICH_MIN == 3

HASHTAGS_RICH_MAX == 15

\* The four literals of the hook check, each held as one character.
HOOK_EMOJI == {<<"<fire>">>, <<"<sparkles>">>, <<"<muscle>">>, <<"<rocket>">>}

HOOK_PHRASES ==
    { <<"i","m","a","g","i","n","e">>,
      <<"w","h","a","t"," ","i","f">>,
      <<"e","v","e","r"," ","f","e","l","t">> }

cta_phrases ==
    { <<"s","h","a","r","e">>,
      <<"c","o","m","m","e","n","t">>,
      <<"t","e","l","l"," ","m","e">>,
      <<"l","e","t"," ","m","e"," ","k","n","o","w">>,
      <<"j","o","i","n">>,
      <<"r","e","p","l","y">>,
      <<"d","m"," ","m","e">>,
      <<"r","e","a","c","h"," ","o","u","t">>,
      <<"c","o","n","n","e","c","t">> }

DimensionNames ==
    {"clarity", "tone_match", "length_appropriateness", "hook_strength",
     "cta_quality", "hashtag_richness"}

\* re.split(r"(?<=[.!?])\s+", text)[0] for a stripped text: the text up to the
\* first sentence end that whitespace follows.
Opening(text) ==
    LET ends == {i \in 1..(Len(text) - 1) :
                    text[i] \in {".", "!", "?"} /\ text[i + 1] \in Whitespace}
    IN  IF ends = {} THEN text
        ELSE SubSeq(text, 1, CHOOSE i \in ends : \A j \in ends : i <= j)

\* len(re.findall(r"#\w+", text)): a match starts at every '#' a word
\* character follows, and no two matches overlap since '#' is no word character.
HashtagCount(text) ==
    Cardinality({i \in 1..(Len(text) - 1) : text[i] = "#" /\ text[i + 1] \in WordChars})

Clarity(text, words) ==
    IF Contains(text, FALLBACK_TAG) THEN 30
    ELSE IF Len(words) < SHORT_TEXT_WORDS THEN 60
    ELSE 80

LengthAppropriateness(platform, word_count) ==
    IF platform \in {linkedin, email}
    THEN LET cfg == PLATFORM_CONFIG[platform]
         IN  IF word_count < cfg.min_words THEN 50
             ELSE IF word_count > cfg.max_words THEN 60
             ELSE 90
    ELSE IF platform = instagram
    THEN IF word_count < INSTAGRAM_SHORT_WORDS THEN 50
         ELSE IF word_count > INSTAGRAM_LONG_WORDS THEN 60
         ELSE 90
    ELSE 80

HookStrength(text) ==
    LET opening == Opening(text)
        h1 == IF Contains(opening, <<"?">>) THEN 85 ELSE 70
        h2 == IF \E e \in HOOK_EMOJI : Contains(opening, e) THEN Max(h1, 80) ELSE h1
    IN  IF \E p \in HOOK_PHRASES : StartsWith(Lower(opening), p)
        THEN Max(h2, 85) ELSE h2

CtaQuality(text) ==
    LET lower_text == Lower(text)
    IN  IF \E p \in cta_phrases : Contains(lower_text, p) THEN 90 ELSE 60

\* HashtagRichness computed for every platform.
HashtagRichness_AnyPlatform(platform, text) ==
    LET tags == HashtagCount(text)
    IN  IF tags = 0 THEN 40
        ELSE IF HASHTAGS_RICH_MIN <= tags /\ tags <= HASHTAGS_RICH_MAX THEN 90
        ELSE 70

HashtagRichness(platform, text) ==
    IF platform = instagram
    THEN LET tags == HashtagCount(text)
         IN  IF tags = 0 THEN 40
             ELSE IF HASHTAGS_RICH_MIN <= tags /\ tags <= HASHTAGS_RICH_MAX THEN 90
             ELSE 70
    ELSE None

\* The dimensions dictionary: all six keys, hashtag_richness holding None
\* outside instagram.
Dimensions(platform, text) ==
    LET words == Split(_normalize_whitespace(text))
    IN  [d \in DimensionNames |->
            CASE d = "clarity" -> Clarity(text, words)
              [] d = "tone_match" -> 80
              [] d = "length_appropriateness" -> LengthAppropriateness(platform, Len(words))
              [] d = "hook_strength" -> HookStrength(text)
              [] d = "cta_quality" -> CtaQuality(text)
              [] d = "hashtag_richness" -> HashtagRichness(platform, text)]

\* numeric_values: the keys whose value is not None.
NumericKeys(dimensions) == {d \in DOMAIN dimensions : dimensions[d] # None}

RECURSIVE SumOver(_, _)
SumOver(dimensions, keys) ==
    IF keys = {} THEN 0
    ELSE LET k == CHOOSE x \in keys : TRUE
         IN  dimensions[k] + SumOver(dimensions, keys \ {k})

\* The six-value means that lie exactly halfway between two hundredths and that
\* the double-precision sum and division of the code leave just below or on
\* the half, so that round(final_score, 2) goes down: <<clarity,
\* length_appropriateness, cta_quality, hashtag_richness>> with hook_strength 85.
FloatHalfRoundsDown ==
    { <<30, 50, 60, 70>>, <<30, 50, 90, 40>>, <<30, 50, 90, 70>>,
      <<60, 50, 60, 40>>, <<60, 50, 60, 70>>, <<60, 50, 90, 40>>,
      <<60, 50, 90, 70>> }

\* FinalScore with a None dimension counted as a zero among the values.
FinalScore_NoneAsZero(dimensions) ==
    LET n == Cardinality(DOMAIN dimensions)
        total == SumOver(dimensions, NumericKeys(dimensions))
    IN  IF n = 0 THEN 0 ELSE (2 * total + n) \div (2 * n)

\* round(sum(numeric_values) / len(numeric_values), 2), or 0.0 without values.
FinalScore(dimensions) ==
    LET keys == NumericKeys(dimensions)
        n == Cardinality(keys)
        total == SumOver(dimensions, keys)
    IN  IF n = 0 THEN 0
        ELSE IF (2 * total) % (2 * n) = n
        THEN IF <<dimensions["clarity"], dimensions["length_appropriateness"],
                  dimensions["cta_quality"], dimensions["hashtag_richness"]>>
                    \in FloatHalfRoundsDown
             THEN total \div n
             ELSE total \div n + 1
        ELSE (2 * total + n) \div (2 * n)

SummaryFeedback(platform, dimensions) ==
    LET part(cond, sentence) == IF cond THEN <<sentence>> ELSE <<>>
        feedback_parts ==
            part(dimensions["length_appropriateness"] < 70,
                 "Adjust the length to better fit this platform.")
            \o part(dimensions["hook_strength"] < 75,
                    "Consider a stronger opening line or hook.")
            \o part(dimensions["cta_quality"] < 75,
                    "Add a clearer call-to-action.")
            \o part(platform = instagram /\ dimensions["hashtag_richness"] # None
                        /\ dimensions["hashtag_richness"] < 70,
                    "Add more relevant hashtags to increase reach.")
    IN  IF feedback_parts = <<>>
        THEN <<"Overall, this content is well-structured for the platform.">>
        ELSE feedback_parts

\* The scorer with its empty-text guard applied to the untrimmed text.
quality_and_reach_scorer_NoStrip(platform_arg, text_arg) ==
    LET platform == Lower(OrEmpty(platform_arg))
        text == OrEmpty(text_arg)
    IN  IF text = <<>>
        THEN [platform |-> platform, score |-> 0, dimensions |-> <<>>,
              summary_feedback |-> <<"No text to evaluate.">>]
        ELSE LET dimensions == Dimensions(platform, text)
             IN  [platform |-> platform,
                  score |-> FinalScore(dimensions),
                  dimensions |-> dimensions,
                  summary_feedback |-> SummaryFeedback(platform, dimensions)]

quality_and_reach_scorer(platform_arg, text_arg) ==
    LET platform == Lower(OrEmpty(platform_arg))
        text == Strip(OrEmpty(text_arg))
    IN  IF text = <<>>
        THEN [platform |-> platform, score |-> 0, dimensions |-> <<>>,
              summary_feedback |-> <<"No text to evaluate.">>]
        ELSE LET dimensions == Dimensions(platform, text)
             IN  [platform |-> platform,
                  score |-> FinalScore(dimensions),
                  dimensions |-> dimensions,
                  summary_feedback |-> SummaryFeedback(platform, dimensions)]

(***************************************************************************)
(* platform_formatting_tool                                                *)
(***************************************************************************)

\* "[EMPTY CONTENT] No text was provided to format."
EMPTY_CONTENT ==
    <<"[","E","M","P","T","Y"," ","C","O","N","T","E","N","T","]"," ",
      "N","o"," ","t","e","x","t"," ","w","a","s"," ",
      "p","r","o","v","i","d","e","d"," ","t","o"," ","f","o","r","m","a","t",".">>

\* A hashtag list that was not given (hashtags=None).
NoHashtags == <<NoneStr>>

\* str.splitlines(): the pieces between line breaks, without a last empty piece.
SplitLines(s) ==
    LET breaks == SortedRange({i \in 1..Len(s) : s[i] \in LineBreaks}, 1, Len(s))
        n == Len(breaks)
        from(k) == IF k = 1 THEN 1 ELSE breaks[k - 1] + 1
        to(k) == IF k = n + 1 THEN Len(s) ELSE breaks[k] - 1
        count == IF from(n + 1) > Len(s) THEN n ELSE n + 1
    IN  [k \in 1..count |-> SubSeq(s, from(k), to(k))]

\* FormatWords keeping one word more than max_words when it trims.
FormatWords_OneTooMany(platform, formatted_arg, trimmed, short) ==
    LET formatted == _normalize_whitespace(formatted_arg)
        words == Split(formatted)
        cfg == PLATFORM_CONFIG[platform]
    IN  IF Len(words) > cfg.max_words
        THEN [platform |-> platform,
              formatted_text |-> Join(Take(words, cfg.max_words + 1), <<" ">>),
              length_warning |-> <<trimmed, cfg.max_words>>]
        ELSE IF Len(words) < cfg.min_words
        THEN [platform |-> platform,
              formatted_text |-> formatted,
              length_warning |-> <<short, Len(words)>>]
        ELSE [platform |-> platform,
              formatted_text |-> formatted,
              length_warning |-> <<>>]

\* The word-limited formatting shared by the linkedin and email branches.
FormatWords(platform, formatted_arg, trimmed, short) ==
    LET formatted == _normalize_whitespace(formatted_arg)
        words == Split(formatted)
        cfg == PLATFORM_CONFIG[platform]
    IN  IF Len(words) > cfg.max_words
        THEN [platform |-> platform,
              formatted_text |-> Join(Take(words, cfg.max_words), <<" ">>),
              length_warning |-> <<trimmed, cfg.max_words>>]
        ELSE IF Len(words) < cfg.min_words
        THEN [platform |-> platform,
              formatted_text |-> formatted,
              length_warning |-> <<short, Len(words)>>]
        ELSE [platform |-> platform,
              formatted_text |-> formatted,
              length_warning |-> <<>>]

\* The caption: at most max_lines lines, then at most max_chars characters.
Caption(raw_text) ==
    LET stripped == Strip(raw_text)
        lines == SplitLines(stripped)
        limited == IF Len(lines) > INSTAGRAM_MAX_LINES
                   THEN Join(Take(lines, INSTAGRAM_MAX_LINES), <<"\n">>)
                   ELSE stripped
    IN  IF Len(limited) > INSTAGRAM_MAX_CHARS
        THEN Take(limited, INSTAGRAM_MAX_CHARS)
        ELSE limited

\* cleaned_tags: each tag trimmed, empty ones dropped, '#' prepended if missing.
RECURSIVE CleanedTags(_)
CleanedTags(hashtags) ==
    IF hashtags = <<>> THEN <<>>
    ELSE LET t == Strip(Head(hashtags))
         IN  IF t = <<>> THEN CleanedTags(Tail(hashtags))
             ELSE IF StartsWith(t, <<"#">>) THEN <<t>> \o CleanedTags(Tail(hashtags))
             ELSE <<<<"#">> \o t>> \o CleanedTags(Tail(hashtags))

\* The deduplication loop with tags compared as written.
RECURSIVE DedupedTags_CaseSensitive(_, _)
DedupedTags_CaseSensitive(cleaned_tags, seen) ==
    IF cleaned_tags = <<>> THEN <<>>
    ELSE LET t == Head(cleaned_tags)
         IN  IF t \notin seen
             THEN <<t>> \o DedupedTags_CaseSensitive(Tail(cleaned_tags), seen \cup {t})
             ELSE DedupedTags_CaseSensitive(Tail(cleaned_tags), seen)

\* deduped_tags: the loop over cleaned_tags with the set `seen` of lower-cased tags.
RECURSIVE DedupedTags(_, _)
DedupedTags(cleaned_tags, seen) ==
    IF cleaned_tags = <<>> THEN <<>>
    ELSE LET t == Head(cleaned_tags)
         IN  IF Lower(t) \notin seen
             THEN <<t>> \o DedupedTags(Tail(cleaned_tags), seen \cup {Lower(t)})
             ELSE DedupedTags(Tail(cleaned_tags), seen)

HashtagBlock(hashtags_arg) ==
    LET hashtags == IF hashtags_arg = NoHashtags THEN <<>> ELSE hashtags_arg
    IN  Join(DedupedTags(CleanedTags(hashtags), {}), <<" ">>)

FormatInstagram(raw_text, hashtags) ==
    LET caption == Caption(raw_text)
        hashtag_block == HashtagBlock(hashtags)
    IN  [platform |-> instagram,
         formatted_text |-> IF hashtag_block # <<>>
                            THEN caption \o <<"\n", "\n">> \o hashtag_block
                            ELSE caption,
         caption |-> caption,
         hashtag_block |-> hashtag_block]

platform_formatting_tool(platform_arg, text_arg, hashtags) ==
    LET platform == Lower(OrEmpty(platform_arg))
        raw_text == OrEmpty(text_arg)
    IN  IF platform \notin DOMAIN PLATFORM_CONFIG
        THEN [platform |-> platform,
              formatted_text |-> _normalize_whitespace(raw_text),
              warning |-> "Unknown platform; no specific formatting applied."]
        ELSE IF Strip(raw_text) = <<>>
        THEN [platform |-> platform,
              formatted_text |-> EMPTY_CONTENT,
              warning |-> "Input text was empty."]
        ELSE IF platform = linkedin
        THEN FormatWords(linkedin, Strip(raw_text), "Trimmed LinkedIn post to",
                         "LinkedIn post is quite short")
        ELSE IF platform = instagram
        THEN FormatInstagram(raw_text, hashtags)
        ELSE FormatWords(email, Strip(raw_text), "Trimmed email blurb to",
                         "Email blurb is quite short")

(***************************************************************************)
(* run_agent and the pipeline of main.py                                   *)
(***************************************************************************)

REFINEMENT_THRESHOLD == 90

MAX_RETRIES == 3

\* The prefix main.py tests a generated text for: "[FALLBACK".
FALLBACK_PREFIX == <<"[","F","A","L","L","B","A","C","K">>

\* "[FALLBACK OUTPUT] Unable to generate content due to: "
FALLBACK_OUTPUT_HEAD ==
    <<"[","F","A","L","L","B","A","C","K"," ","O","U","T","P","U","T","]",
      " ","U","n","a","b","l","e"," ","t","o"," ","g","e","n","e","r","a",
      "t","e"," ","c","o","n","t","e","n","t"," ","d","u","e"," ","t","o",
      ":"," ">>

\* The fallback string run_agent returns for last_error.
FallbackOutput(error) == FALLBACK_OUTPUT_HEAD \o error

\* The message of the exception a failed attempt raises.
TIMEOUT == <<"t","i","m","e","o","u","t">>

\* "This draft is based on the user brief:\n\n"
BRIEF_DRAFT_HEAD ==
    <<"T","h","i","s"," ","d","r","a","f","t"," ","i","s"," ","b","a","s",
      "e","d"," ","o","n"," ","t","h","e"," ","u","s","e","r"," ","b","r",
      "i","e","f",":","\n","\n">>

\* The platform identifier passed to the scorer for a key of run_state.
PlatformId == [linkedin |-> linkedin, instagram |-> instagram, email |-> email]

\* evaluation/test_results.csv does not exist.
NoFile == <<"<no file>">>

CSV_HEADER == <<"test_case", "linkedin", "instagram", "email", "timestamp">>

\* The refinement decision of maybe_refine, taken for a None score as well.
NeedsRefinement_NoneIsLow(base_score) == base_score < REFINEMENT_THRESHOLD

\* maybe_refine: whether base_score asks for a rewrite.
NeedsRefinement(base_score) ==
    ~(base_score = None \/ base_score >= REFINEMENT_THRESHOLD)

\* A test that lets a text beginning "[FALLBACK" pass.
EmptyOrFallback_OnlyEmpty(text) == text = <<>>

\* A test that lets an empty text pass.
EmptyOrFallback_OnlyFallback(text) == StartsWith(text, FALLBACK_PREFIX)

\* not text or text.startswith("[FALLBACK")
EmptyOrFallback(text) == text = <<>> \/ StartsWith(text, FALLBACK_PREFIX)

parse_strategy(raw_text) ==
    [raw |-> raw_text, key_points |-> <<>>, audience |-> "early-career or general",
     tone |-> "honest, practical, encouraging"]

\* The dictionary stored when scoring raises.
ScoringFailed(platform) ==
    [platform |-> PlatformId[platform], score |-> None,
     summary_feedback |-> <<"Scoring failed.">>, dimensions |-> <<>>]

InitialRefinements ==
    [p \in {"linkedin", "instagram", "email"} |->
        [old |-> None, new |-> None, delta |-> 0]]

InitialRunState(brief) ==
    [brief |-> brief, controller_plan |-> NoneStr, strategy |-> NoneStr,
     base_draft |-> NoneStr, linkedin |-> NoneStr, instagram |-> NoneStr,
     email |-> NoneStr, refinements |-> InitialRefinements]

\* The places of the pipeline at which run_agent is called.
AgentCalls ==
    {"controller", "strategy", "draft", "linkedin", "instagram", "email",
     "rewrite_linkedin", "rewrite_email"}

\* The platform a rewrite call is for.
RewritePlatform(place) == IF place = "rewrite_linkedin" THEN "linkedin" ELSE "email"

\* The agent run_agent is called with at a place.
AgentRole(place) ==
    CASE place = "controller" -> "Content Director"
      [] place = "strategy" -> "Content Strategist"
      [] place = "draft" -> "Master Draft Writer"
      [] OTHER -> "Platform Stylist"

\* The prompt built at a place: its template and the values formatted into it.
Prompt(place) ==
    CASE place \in {"controller", "strategy"} ->
            [template |-> place, inserted |-> <<user_brief>>]
      [] place = "draft" ->
            [template |-> place, inserted |-> <<user_brief, run_state.strategy.raw>>]
      [] place \in {"linkedin", "instagram", "email"} ->
            [template |-> place, inserted |-> <<run_state.base_draft>>]
      [] OTHER ->
            [template |-> "improvement",
             inserted |-> <<PlatformId[RewritePlatform(place)],
                            run_state[RewritePlatform(place)],
                            scores[RewritePlatform(place)].summary_feedback>>]

\* The place after the refinement of a platform.
AfterRefine(platform) == IF platform = "linkedin" THEN "refine_email" ELSE "persist"

\* A maybe_refine that hands back the original text after an accepted rewrite.
RefinedText_KeepsOriginal(original_text, improved) == original_text

\* What maybe_refine returns after an accepted rewrite, which the caller
\* stores in run_state[platform]: return improved.
RefinedText(original_text, improved) == improved

\* A run_agent whose delay doubles with every failed attempt.
sleep_seconds_Doubling(n) == 2 ^ (n - 1)

\* time.sleep(1.0 * attempt): the delay after failed attempt n, in seconds.
sleep_seconds(n) == n

\* The record of a refinement whose delta is taken the wrong way round.
RefinementRecord_Reversed(old, new) ==
    [old |-> old, new |-> new,
     delta |-> IF old # None /\ new # None THEN old - new ELSE 0]

\* record["old"], record["new"], record["delta"] as maybe_refine sets them.
RefinementRecord(old, new) ==
    [old |-> old, new |-> new,
     delta |-> IF old # None /\ new # None THEN new - old ELSE 0]

\* f"{score:.2f}" if score is not None else ""
FormatScore(score) == IF score = None THEN <<>> ELSE <<score>>

DigitChars == <<"0","1","2","3","4","5","6","7","8","9">>

\* str(n), as csv.writer writes an int cell.
RECURSIVE str_of_int(_)
str_of_int(n) ==
    IF n < 0 THEN <<"-">> \o str_of_int(0 - n)
    ELSE IF n < 10 THEN <<DigitChars[n + 1]>>
    ELSE str_of_int(n \div 10) \o <<DigitChars[(n % 10) + 1]>>

\* The digits of an int literal: the cell without the whitespace around it
\* and without its sign.
LiteralDigits(cell) ==
    LET t == Strip(cell)
    IN  IF t # <<>> /\ t[1] \in {"+", "-"} THEN Tail(t) ELSE t

\* int(cell) does not raise ValueError.
IsIntLiteral(cell) ==
    /\ LiteralDigits(cell) # <<>>
    /\ \A i \in 1..Len(LiteralDigits(cell)) : LiteralDigits(cell)[i] \in Digits

RECURSIVE DigitsValue(_)
DigitsValue(ds) ==
    IF ds = <<>> THEN 0
    ELSE 10 * DigitsValue(SubSeq(ds, 1, Len(ds) - 1))
         + (CHOOSE d \in 0..9 : DigitChars[d + 1] = ds[Len(ds)])

\* int(cell), for a cell that is an int literal.
int_of_str(cell) ==
    IF Strip(cell)[1] = "-" THEN 0 - DigitsValue(LiteralDigits(cell))
    ELSE DigitsValue(LiteralDigits(cell))

\* A get_next_test_case_id that hands back the last id as it is.
get_next_test_case_id_NoIncrement(file) ==
    IF file = NoFile THEN 1
    ELSE IF Len(file) <= 1 THEN 1
    ELSE LET last_row == file[Len(file)]
         IN  IF last_row = <<>> \/ ~IsIntLiteral(last_row[1]) THEN 1
             ELSE int_of_str(last_row[1])

\* get_next_test_case_id: 1 without a file, with at most one row, and when
\* last_row[0] or int() raises (an empty last row, a cell that is no number).
get_next_test_case_id(file) ==
    IF file = NoFile THEN 1
    ELSE IF Len(file) <= 1 THEN 1
    ELSE LET last_row == file[Len(file)]
         IN  IF last_row = <<>> \/ ~IsIntLiteral(last_row[1]) THEN 1
             ELSE int_of_str(last_row[1]) + 1

\* ensure_eval_csv_exists
ensure_eval_csv_exists(file) == IF file = NoFile THEN <<CSV_HEADER>> ELSE file

\* append_test_result
append_test_result(file, test_case, linkedin_score, instagram_score, email_score) ==
    Append(ensure_eval_csv_exists(file),
           <<str_of_int(test_case), FormatScore(linkedin_score),
             FormatScore(instagram_score), FormatScore(email_score), "timestamp">>)

(***************************************************************************)
(* Direct calls of the tools on generated inputs                           *)
(***************************************************************************)

\* The largest number of filler words a generated text holds.
MaxFiller == 222

\* The largest number of hashtags a generated text or hashtag list holds.
MaxTags == 16

\* w repeated n times.
Rep(w, n) == [i \in 1..(n * Len(w)) |-> w[((i - 1) % Len(w)) + 1]]

\* The non-empty parts joined by single spaces.
Phrase(parts) == Join(SelectSeq(parts, LAMBDA x : x # <<>>), <<" ">>)

MarkerText(marker) ==
    CASE marker = "tag" -> FALLBACK_TAG
      [] marker = "output" -> FallbackOutput(TIMEOUT)
      [] OTHER -> <<>>

OpeningText(kind) ==
    CASE kind = "question" -> <<"R","e","a","d","y","?">>
      [] kind = "imagine" -> <<"I","m","a","g","i","n","e"," ","t","h","i","s",".">>
      [] kind = "emoji" -> <<"<rocket>"," ","G","o","!">>
      [] OTHER -> <<"H","e","l","l","o"," ","t","h","e","r","e",".">>

CtaText(cta) == IF cta THEN <<"S","h","a","r","e"," ","i","t",".">> ELSE <<>>

\* n filler words, separated by single spaces.
Filler(n) == Take(Rep(<<"a","b"," ">>, n), 3 * n - 1)

\* n hashtags, separated by single spaces.
TagsText(n) == Take(Rep(<<"#","t","g"," ">>, n), 4 * n - 1)

ScorerText(shape) ==
    Phrase(<<MarkerText(shape.marker), OpeningText(shape.opening),
             Filler(shape.filler), CtaText(shape.cta), TagsText(shape.tags)>>)

FillerCounts == {0, 12, 78, 158, MaxFiller}

TagCounts == {0, 1, 3, MaxTags}

ScorerShapes ==
    [marker : {"none", "tag", "output"},
     opening : {"plain", "question", "imagine", "emoji"},
     filler : FillerCounts,
     cta : BOOLEAN,
     tags : TagCounts]

\* Texts with nothing to evaluate.
BlankTexts == {<<>>, <<" ">>, <<"\n", "\t", " ">>, NoneStr}

tiktok == <<"t","i","k","t","o","k">>

ScorerPlatforms == {linkedin, instagram, email, <<"L","i","n","k","e","d","I","n">>, tiktok}

ScorerArgs ==
    [platform : ScorerPlatforms \cup {<<>>, NoneStr}, text : BlankTexts]
    \cup {[platform |-> p, text |-> ScorerText(shape)] :
            p \in ScorerPlatforms, shape \in ScorerShapes}

\* The largest number of lines a generated caption text holds.
MaxLines == 11

\* The longest line of a generated caption text.
MaxWidth == 2201

\* The longest generated hashtag list.
MaxListLen == 3

\* The i-th word of a generated text.
Word(i) == IF i % 2 = 1 THEN <<"a", "b">> ELSE <<"c">>

\* n words separated by sep, inside leading and trailing whitespace if padded.
WordsText(n, sep, padded) ==
    LET body == Join([i \in 1..n |-> Word(i)], sep)
    IN  IF padded THEN <<" ", "\n">> \o body \o <<"\t">> ELSE body

WordCounts == {1, 39, 40, 79, 80, 160, 161, 220, 221, MaxFiller}

WordTexts ==
    {WordsText(n, sep, padded) :
        n \in WordCounts, sep \in {<<" ">>, <<" ", "\n", " ">>}, padded \in BOOLEAN}

\* `lines` lines of `width` characters each.
LinesText(lines, width) == Join([i \in 1..lines |-> Rep(<<"x">>, width)], <<"\n">>)

LineTexts ==
    {LinesText(lines, width) :
        lines \in {1, 2, INSTAGRAM_MAX_LINES, MaxLines},
        width \in {3, 219, 220, MaxWidth}}

TagPool ==
    { <<"#","G","o">>, <<"g","o">>, <<"#","G","O">>, <<" ","g","r","o","w"," ">>,
      <<"G","r","o","w">>, <<>>, <<" ">> }

\* Every list of at most n tags of the pool.
TagLists(n) == UNION {[1..k -> TagPool] : k \in 0..n}

FormatterArgs ==
    [platform : {linkedin, email, <<"E","m","a","i","l">>},
     text : WordTexts \cup BlankTexts,
     hashtags : {NoHashtags}]
    \cup [platform : {instagram},
          text : LineTexts \cup BlankTexts,
          hashtags : {NoHashtags, <<>>, <<<<"g","o">>>>, [i \in 1..MaxTags |-> <<"g","o">>]}]
    \cup [platform : {instagram},
          text : {LinesText(2, 3)},
          hashtags : TagLists(MaxListLen)]
    \cup [platform : {tiktok, NoneStr},
          text : {WordsText(3, <<" ", "\n", " ">>, TRUE), <<" ">>},
          hashtags : {NoHashtags}]

(***************************************************************************)
(* The environment: the line typed, the model's answers                    *)
(***************************************************************************)

InputLines == {<<>>, <<" ", " ">>, <<" ","B","e"," ","b","o","l","d"," ">>}

PLAN_TEXT == <<"1","."," ","P","l","a","n",".">>

DRAFT_TEXT == <<"A"," ","d","r","a","f","t",".">>

PLAIN_POST == <<"T","i","p","s"," ","f","o","r"," ","y","o","u",".">>

STRONG_POST == <<"R","e","a","d","y","?"," ","S","h","a","r","e"," ","i","t",".">>

TAGGED_POST ==
    <<"[","F","A","L","L","B","A","C","K","]"," ","n","o"," ","t","e","x",
      "t">>

IG_POST == <<"G","o","!"," ","#","a"," ","#","b"," ","#","c">>

\* What message.content may hold at a place (run_agent strips it).
Contents(place) ==
    CASE place \in {"controller", "strategy"} -> {PLAN_TEXT}
      [] place = "draft" -> {DRAFT_TEXT, TAGGED_POST, <<" ">>}
      [] place = "instagram" -> {IG_POST}
      [] place = "linkedin" -> {PLAIN_POST, <<" ">>}
      [] place = "email" -> {STRONG_POST, TAGGED_POST}
      [] OTHER -> {STRONG_POST, PLAIN_POST, TAGGED_POST, <<" ">>}

\* The scores the refinement decision is taken for: None and 0.00 to 1.00.
DecisionScores == {None} \cup 0..100

\* No run of main is under way.
NoRun ==
    /\ pc = "none"
    /\ user_brief = NoneStr
    /\ attempt = 0
    /\ last_error = NoneStr
    /\ slept = <<>>
    /\ agent_result = NoneStr
    /\ run_state = <<>>
    /\ texts = <<>>
    /\ scores = <<>>
    /\ refinements_made = <<>>
    /\ events = <<>>
    /\ csv_file = NoFile

\* A call about to be made: the tool and its arguments.
ToolInit ==
    /\ returned = FALSE
    /\ result = <<>>
    /\ \/ tool = "quality_and_reach_scorer" /\ args \in ScorerArgs
       \/ tool = "platform_formatting_tool" /\ args \in FormatterArgs
       \/ tool = "maybe_refine" /\ args \in [base_score : DecisionScores]
    /\ NoRun

\* The call quality_and_reach_scorer(platform, text) runs and returns.
ScorerCall ==
    /\ ~returned
    /\ tool = "quality_and_reach_scorer"
    /\ result' = quality_and_reach_scorer(args.platform, args.text)
    /\ returned' = TRUE
    /\ UNCHANGED <<tool, args>>

\* The call platform_formatting_tool(platform, text, hashtags) runs and returns.
FormatterCall ==
    /\ ~returned
    /\ tool = "platform_formatting_tool"
    /\ result' = platform_formatting_tool(args.platform, args.text, args.hashtags)
    /\ returned' = TRUE
    /\ UNCHANGED <<tool, args>>

\* The first lines of maybe_refine decide for base_score.
RefinementDecision ==
    /\ ~returned
    /\ tool = "maybe_refine"
    /\ result' = [needs_refinement |-> NeedsRefinement(args.base_score)]
    /\ returned' = TRUE
    /\ UNCHANGED <<tool, args>>

ToolNext ==
    \/ ScorerCall /\ UNCHANGED runVars
    \/ FormatterCall /\ UNCHANGED runVars
    \/ RefinementDecision /\ UNCHANGED runVars

ToolSpec == ToolInit /\ [][ToolNext]_vars

(***************************************************************************)
(* One execution of main                                                   *)
(***************************************************************************)

Init ==
    /\ tool = "none" /\ args = <<>> /\ returned = FALSE /\ result = <<>>
    /\ pc = "main"
    /\ user_brief = NoneStr
    /\ attempt = 0
    /\ last_error = NoneStr
    /\ slept = <<>>
    /\ agent_result = NoneStr
    /\ run_state = <<>>
    /\ texts = <<>>
    /\ scores = <<>>
    /\ refinements_made = <<>>
    /\ events = <<>>
    /\ csv_file = NoFile

\* A main whose pipeline starts at the strategy call, without the
\* controller's plan.
ReadBrief_SkipsController ==
    /\ pc = "main"
    /\ \E line \in InputLines :
          LET brief == Strip(line)
          IN  IF brief = <<>>
              THEN /\ pc' = "done"
                   /\ UNCHANGED <<user_brief, run_state>>
              ELSE /\ pc' = "strategy"
                   /\ user_brief' = brief
                   /\ run_state' = InitialRunState(brief)
    /\ UNCHANGED <<attempt, last_error, slept, agent_result, texts, scores,
                   refinements_made, events, csv_file, toolVars>>

\* A main that does not strip the line it reads.
ReadBrief_NoStrip ==
    /\ pc = "main"
    /\ \E line \in InputLines :
          IF line = <<>>
          THEN /\ pc' = "done"
               /\ UNCHANGED <<user_brief, run_state>>
          ELSE /\ pc' = "controller"
               /\ user_brief' = line
               /\ run_state' = InitialRunState(line)
    /\ UNCHANGED <<attempt, last_error, slept, agent_result, texts, scores,
                   refinements_made, events, csv_file, toolVars>>

\* main reads the brief; an empty one ends the program, any other starts
\* run_content_repurposer, which builds run_state up to the first model call.
ReadBrief ==
    /\ pc = "main"
    /\ \E line \in InputLines :
          LET brief == Strip(line)
          IN  IF brief = <<>>
              THEN /\ pc' = "done"
                   /\ UNCHANGED <<user_brief, run_state>>
              ELSE /\ pc' = "controller"
                   /\ user_brief' = brief
                   /\ run_state' = InitialRunState(brief)
    /\ UNCHANGED <<attempt, last_error, slept, agent_result, texts, scores,
                   refinements_made, events, csv_file, toolVars>>

\* run_agent is entered with the prompt of the current place.
RunAgentEnter ==
    /\ pc \in AgentCalls
    /\ attempt = 0
    /\ attempt' = 1
    /\ last_error' = NoneStr
    /\ slept' = <<>>
    /\ events' = Append(events, [kind |-> "run_agent", place |-> pc,
                                  agent |-> AgentRole(pc), prompt |-> Prompt(pc)])
    /\ UNCHANGED <<pc, user_brief, agent_result, run_state, texts, scores,
                   refinements_made, csv_file, toolVars>>

\* An attempt raises: the error is kept, run_agent sleeps 1.0 * attempt and
\* goes on to the next attempt.
AttemptFails ==
    /\ pc \in AgentCalls
    /\ attempt \in 1..MAX_RETRIES
    /\ last_error' = TIMEOUT
    /\ slept' = Append(slept, sleep_seconds(attempt))
    /\ attempt' = attempt + 1
    /\ UNCHANGED <<pc, user_brief, agent_result, run_state, texts, scores,
                   refinements_made, events, csv_file, toolVars>>

\* The caller of run_agent goes on with the returned text.
Resume(value) ==
    CASE pc = "controller" ->
            /\ run_state' = [run_state EXCEPT !.controller_plan = value]
            /\ pc' = "strategy"
            /\ UNCHANGED <<texts, scores, refinements_made, events>>
      [] pc = "strategy" ->
            /\ run_state' = [run_state EXCEPT !.strategy = parse_strategy(value)]
            /\ pc' = "draft"
            /\ UNCHANGED <<texts, scores, refinements_made, events>>
      [] pc = "draft" ->
            /\ run_state' = [run_state EXCEPT !.base_draft =
                                 IF EmptyOrFallback(value)
                                 THEN BRIEF_DRAFT_HEAD \o user_brief
                                 ELSE value]
            /\ pc' = "linkedin"
            /\ UNCHANGED <<texts, scores, refinements_made, events>>
      [] pc = "linkedin" ->
            /\ texts' = [linkedin |-> value]
            /\ pc' = "instagram"
            /\ UNCHANGED <<run_state, scores, refinements_made, events>>
      [] pc = "instagram" ->
            /\ texts' = [linkedin |-> texts.linkedin, instagram |-> value]
            /\ pc' = "email"
            /\ UNCHANGED <<run_state, scores, refinements_made, events>>
      [] pc = "email" ->
            /\ texts' = [linkedin |-> texts.linkedin, instagram |-> texts.instagram,
                         email |-> value]
            /\ run_state' = [run_state EXCEPT !.linkedin = texts.linkedin,
                                              !.instagram = texts.instagram,
                                              !.email = value]
            /\ pc' = "score_linkedin"
            /\ UNCHANGED <<scores, refinements_made, events>>
      [] pc \in {"rewrite_linkedin", "rewrite_email"} ->
            LET platform == RewritePlatform(pc)
                base_score == scores[platform].score
            IN  /\ pc' = AfterRefine(platform)
                /\ texts' = texts
                /\ IF EmptyOrFallback(value)
                   THEN UNCHANGED <<run_state, scores, refinements_made, events>>
                   ELSE \E raised \in BOOLEAN :
                          IF raised
                          THEN /\ events' = Append(events,
                                      [kind |-> "score", place |-> pc,
                                       platform |-> platform, score |-> None])
                               /\ UNCHANGED <<run_state, scores, refinements_made>>
                          ELSE LET new_score ==
                                       quality_and_reach_scorer(PlatformId[platform], value)
                               IN  /\ scores' = [scores EXCEPT ![platform] = new_score]
                                   /\ run_state' =
                                          [run_state EXCEPT
                                              !.refinements[platform] =
                                                  RefinementRecord(base_score, new_score.score),
                                              ![platform] =
                                                  RefinedText(run_state[platform], value)]
                                   /\ refinements_made' = Append(refinements_made, platform)
                                   /\ events' = Append(events,
                                          [kind |-> "score", place |-> pc,
                                           platform |-> platform,
                                           score |-> new_score.score])

\* An attempt succeeds: run_agent returns the stripped content to its caller.
AttemptSucceeds ==
    /\ pc \in AgentCalls
    /\ attempt \in 1..MAX_RETRIES
    /\ \E content \in Contents(pc) :
          /\ agent_result' = Strip(content)
          /\ Resume(Strip(content))
    /\ attempt' = 0
    /\ last_error' = NoneStr
    /\ slept' = <<>>
    /\ UNCHANGED <<user_brief, csv_file, toolVars>>

\* Every attempt has failed: run_agent returns the fallback string.
RetriesExhausted ==
    /\ pc \in AgentCalls
    /\ attempt = MAX_RETRIES + 1
    /\ agent_result' = FallbackOutput(last_error)
    /\ Resume(FallbackOutput(last_error))
    /\ attempt' = 0
    /\ last_error' = NoneStr
    /\ slept' = <<>>
    /\ UNCHANGED <<user_brief, csv_file, toolVars>>

\* One of the three initial scorings: the scorer raises and the except branch
\* stores the "Scoring failed." entry, or it returns and its result is stored.
Score(platform, next) ==
    /\ pc = "score_" \o platform
    /\ LET Store(scored) ==
               /\ scores' = (platform :> scored) @@ scores
               /\ events' = Append(events, [kind |-> "score", place |-> pc,
                                             platform |-> platform,
                                             score |-> scored.score])
       IN  \/ Store(ScoringFailed(platform))
           \/ Store(quality_and_reach_scorer(PlatformId[platform], texts[platform]))
    /\ pc' = next
    /\ UNCHANGED <<user_brief, attempt, last_error, slept, agent_result, run_state,
                   texts, refinements_made, csv_file, toolVars>>

ScoreLinkedin == Score("linkedin", "score_instagram")

ScoreInstagram == Score("instagram", "score_email")

ScoreEmail == Score("email", "refine_linkedin")

\* maybe_refine(platform, run_state[platform]) up to its decision: it returns
\* the original text, or goes on to the rewrite call.
MaybeRefine(platform) ==
    /\ pc = "refine_" \o platform
    /\ pc' = IF NeedsRefinement(scores[platform].score)
             THEN "rewrite_" \o platform
             ELSE AfterRefine(platform)
    /\ UNCHANGED <<user_brief, attempt, last_error, slept, agent_result, run_state,
                   texts, scores, refinements_made, events, csv_file, toolVars>>

MaybeRefineLinkedin == MaybeRefine("linkedin")

MaybeRefineEmail == MaybeRefine("email")

\* run_content_repurposer has returned: main reads the three scores, infers
\* the next test_case id and appends the row.
PersistResult ==
    /\ pc = "persist"
    /\ csv_file' = append_test_result(csv_file, get_next_test_case_id(csv_file),
                                      scores["linkedin"].score,
                                      scores["instagram"].score,
                                      scores["email"].score)
    /\ events' = Append(events, [kind |-> "csv_append"])
    /\ pc' = "done"
    /\ UNCHANGED <<user_brief, attempt, last_error, slept, agent_result, run_state,
                   texts, scores, refinements_made, toolVars>>

Next ==
    \/ ReadBrief
    \/ RunAgentEnter
    \/ AttemptFails
    \/ AttemptSucceeds
    \/ RetriesExhausted
    \/ ScoreLinkedin
    \/ ScoreInstagram
    \/ ScoreEmail
    \/ MaybeRefineLinkedin
    \/ MaybeRefineEmail
    \/ PersistResult

Spec == Init /\ [][Next]_vars

\* Every step of a run is taken in the end: the program is one sequential
\* process, and the model call, the sleep and the file operations return.
FairSpec == Spec /\ WF_vars(Next)

(***************************************************************************)
(* Successive executions of main over the same CSV file                    *)
(***************************************************************************)

\* The largest number of executions of main in a row.
MaxRuns == 3

\* A row another execution wrote, with test_case id.
EarlierRow(id) == <<id, <<78>>, <<>>, <<86>>, "timestamp">>

\* evaluation/test_results.csv as the first execution may find it: absent,
\* empty, header only, rows of earlier executions, a last row that holds no
\* number or is empty.
InitialFiles ==
    { NoFile,
      <<>>,
      <<CSV_HEADER>>,
      <<CSV_HEADER, EarlierRow(<<"7">>)>>,
      <<CSV_HEADER, EarlierRow(<<"1">>), EarlierRow(<<" ", "9", "8">>)>>,
      <<CSV_HEADER, EarlierRow(<<"7">>), EarlierRow(<<"n", "/", "a">>)>>,
      <<CSV_HEADER, EarlierRow(<<"7">>), <<>>>> }

\* The dict scores as run_content_repurposer may return it.
ReturnedScores ==
    { [p \in {"linkedin", "instagram", "email"} |->
          IF p \in failed THEN ScoringFailed(p)
          ELSE quality_and_reach_scorer(PlatformId[p], STRONG_POST)] :
      failed \in SUBSET {"linkedin", "instagram", "email"} }

\* The first execution of main, at the point where run_content_repurposer
\* has returned run_state["scores"].
RunsInit ==
    /\ tool = "main"
    /\ args \in [csv_file : InitialFiles, runs : {1}]
    /\ returned = FALSE
    /\ result = <<>>
    /\ pc = "persist"
    /\ user_brief = Strip(<<" ","B","e"," ","b","o","l","d"," ">>)
    /\ attempt = 0
    /\ last_error = NoneStr
    /\ slept = <<>>
    /\ agent_result = NoneStr
    /\ run_state = <<>>
    /\ texts = <<>>
    /\ scores \in ReturnedScores
    /\ refinements_made = <<>>
    /\ events = <<>>
    /\ csv_file = args.csv_file

\* The program is started again and gets to the same point; only the file
\* is left of the execution before.
NextRun ==
    /\ tool = "main"
    /\ pc = "done"
    /\ args.runs < MaxRuns
    /\ args' = [args EXCEPT !.runs = @ + 1]
    /\ pc' = "persist"
    /\ scores' \in ReturnedScores
    /\ events' = <<>>
    /\ UNCHANGED <<tool, returned, result, user_brief, attempt, last_error, slept,
                   agent_result, run_state, texts, refinements_made, csv_file>>

RunsNext ==
    \/ PersistResult
    \/ NextRun

RunsSpec == RunsInit /\ [][RunsNext]_vars

(***************************************************************************)
(* Properties of quality_and_reach_scorer                                  *)
(***************************************************************************)

\* The text argument is absent, empty or made of whitespace only.
IsBlank(text) == text = NoneStr \/ \A i \in 1..Len(text) : text[i] \in Whitespace

\* A scorer call on a text with something to evaluate has returned.
Scored == tool = "quality_and_reach_scorer" /\ returned /\ ~IsBlank(args.text)

PresentDimensions == {d \in DOMAIN result.dimensions : result.dimensions[d] # None}

PresentSum == SumOver(result.dimensions, PresentDimensions)

\* C1 (as the spec states it): the score of a non-empty text equals the
\* arithmetic mean of the dimension values present for the platform.
C1_ScoreIsExactMean ==
    Scored => result.score * Cardinality(PresentDimensions) = PresentSum

\* C1 (amended): the score of a non-empty text is the arithmetic mean of the
\* present dimension values rounded to two decimals: it lies within half a
\* hundredth of the mean taken over the present dimensions only, and it is
\* the mean itself whenever the mean is a whole number of hundredths; an
\* absent dimension enters neither the sum nor the count.
C1_ScoreIsRoundedMean ==
    Scored =>
        LET n == Cardinality(PresentDimensions)
            diff == result.score * n - PresentSum
        IN  /\ n > 0
            /\ 2 * diff <= n
            /\ 2 * (0 - diff) <= n
            /\ (PresentSum % n = 0 => diff = 0)
            /\ (result.platform # instagram => "hashtag_richness" \notin PresentDimensions)

\* C1 witness: an instagram text whose six-value mean is no whole number of
\* hundredths, and a linkedin text scored over five values.
C1_Witness ==
    /\ Scored
    /\ \/ (result.platform = instagram /\ PresentSum % 6 # 0)
       \/ (result.platform = linkedin /\ Cardinality(PresentDimensions) = 5
              /\ result.score = 76)

\* C7: on an empty or whitespace-only text the scorer returns score 0.0, an
\* empty dimensions mapping and the feedback "No text to evaluate.", whatever
\* the platform argument.
C7_EmptyTextShortCircuits ==
    (tool = "quality_and_reach_scorer" /\ returned /\ IsBlank(args.text)) =>
        /\ result.score = 0
        /\ DOMAIN result.dimensions = {}
        /\ result.summary_feedback = <<"No text to evaluate.">>

\* C7 witness: a whitespace-only text scored for an unknown platform.
C7_Witness ==
    /\ tool = "quality_and_reach_scorer" /\ returned
    /\ args.text = <<"\n", "\t", " ">>
    /\ args.platform = tiktok
    /\ result.score = 0

\* C8 (as the spec states it): the dimensions mapping of a non-empty text has
\* exactly 6 entries for instagram and exactly 5 for linkedin and email, with
\* hashtag_richness absent from the mapping.
C8_FiveEntriesOutsideInstagram ==
    Scored =>
        /\ (result.platform = instagram => Cardinality(DOMAIN result.dimensions) = 6)
        /\ (result.platform \in {linkedin, email} =>
                /\ Cardinality(DOMAIN result.dimensions) = 5
                /\ "hashtag_richness" \notin DOMAIN result.dimensions)

\* C8 (amended): the dimensions mapping of a non-empty text always has the six
\* keys; all six hold a value for instagram, and for linkedin and email
\* exactly five do, hashtag_richness being held as None.
C8_DimensionCount ==
    Scored =>
        /\ DOMAIN result.dimensions = DimensionNames
        /\ (result.platform = instagram => Cardinality(PresentDimensions) = 6)
        /\ (result.platform \in {linkedin, email} =>
                /\ Cardinality(PresentDimensions) = 5
                /\ result.dimensions["hashtag_richness"] = None)

\* C8 witness: an email text that carries hashtags has been scored.
C8_Witness ==
    /\ Scored
    /\ result.platform = email
    /\ HashtagCount(args.text) >= HASHTAGS_RICH_MIN
    /\ result.dimensions["hashtag_richness"] = None

(***************************************************************************)
(* Properties of platform_formatting_tool                                  *)
(***************************************************************************)

\* A formatter call for the (lower-cased) platform p has returned.
Formatted(p) ==
    tool = "platform_formatting_tool" /\ returned /\ result.platform = p

\* The number of words of a text: its maximal runs of non-whitespace.
NumWords(s) == Cardinality(RunStarts(s, Whitespace))

\* The number of newline-delimited lines of a text.
NumLines(s) == Cardinality({i \in 1..Len(s) : s[i] = "\n"}) + 1

\* out is made of the first n words of the single-spaced text norm.
IsFirstWords(out, norm, n) ==
    /\ NumWords(out) = n
    /\ Len(out) < Len(norm)
    /\ out = SubSeq(norm, 1, Len(out))
    /\ out[Len(out)] # " "
    /\ norm[Len(out) + 1] = " "

\* What C4 says of the word limit and of a trimmed text, for platform p.
C4_WordLimit(p) ==
    LET cfg == PLATFORM_CONFIG[p]
        norm == _normalize_whitespace(OrEmpty(args.text))
        n == NumWords(OrEmpty(args.text))
    IN  /\ NumWords(result.formatted_text) <= cfg.max_words
        /\ (n > cfg.max_words =>
                IsFirstWords(result.formatted_text, norm, cfg.max_words))

\* C4 (as the spec states it): for linkedin and email the formatted text never
\* has more than max_words words; a longer input is cut to its first
\* max_words normalized words, and an input of fewer than min_words words is
\* returned unpadded with only a warning.
C4_WordsWithinMax ==
    \A p \in {linkedin, email} :
        Formatted(p) =>
            /\ C4_WordLimit(p)
            /\ (NumWords(OrEmpty(args.text)) < PLATFORM_CONFIG[p].min_words =>
                    /\ result.formatted_text = _normalize_whitespace(OrEmpty(args.text))
                    /\ "length_warning" \in DOMAIN result)

\* C4 (amended): for linkedin and email the formatted text never has more than
\* max_words words; a longer input is cut to its first max_words normalized
\* words; an input of at least one word and fewer than min_words words is
\* returned normalized and unpadded with only a length warning; an input
\* without any word is replaced by the 8-word "[EMPTY CONTENT]" placeholder.
C4_WordsWithinMaxOrPlaceholder ==
    \A p \in {linkedin, email} :
        Formatted(p) =>
            LET n == NumWords(OrEmpty(args.text))
            IN  /\ C4_WordLimit(p)
                /\ (n >= 1 /\ n < PLATFORM_CONFIG[p].min_words =>
                        /\ result.formatted_text = _normalize_whitespace(args.text)
                        /\ result.length_warning # <<>>
                        /\ result.length_warning[2] = n)
                /\ (n = 0 =>
                        /\ result.formatted_text = EMPTY_CONTENT
                        /\ NumWords(result.formatted_text) = 8)

\* C4 witness: a linkedin text of more than max_words words has been trimmed.
C4_Witness ==
    /\ Formatted(linkedin)
    /\ NumWords(args.text) > LINKEDIN_MAX_WORDS
    /\ NumWords(result.formatted_text) = LINKEDIN_MAX_WORDS

\* C5: for instagram neither the formatted text nor the caption has more
\* newline-delimited lines than max_lines or more characters than max_chars.
C5_InstagramWithinLimits ==
    (Formatted(instagram) /\ "caption" \in DOMAIN result) =>
        /\ NumLines(result.caption) <= INSTAGRAM_MAX_LINES
        /\ Len(result.caption) <= INSTAGRAM_MAX_CHARS
        /\ NumLines(result.formatted_text) <= INSTAGRAM_MAX_LINES
        /\ Len(result.formatted_text) <= INSTAGRAM_MAX_CHARS

\* The tag the i-th list entry stands for: trimmed, with '#' in front.
TagOf(hashtags, i) ==
    LET t == Strip(hashtags[i])
    IN  IF t # <<>> /\ t[1] = "#" THEN t ELSE <<"#">> \o t

\* The entries that are not empty and whose tag no earlier entry stands for,
\* letter case apart.
FirstSeen(hashtags) ==
    {i \in 1..Len(hashtags) :
        /\ Strip(hashtags[i]) # <<>>
        /\ \A j \in 1..(i - 1) :
              \/ Strip(hashtags[j]) = <<>>
              \/ Lower(TagOf(hashtags, j)) # Lower(TagOf(hashtags, i))}

\* C6: the instagram hashtag block holds each distinct tag (compared without
\* regard to case, after trimming and prepending '#') exactly once, in
\* first-seen order and in the casing of its first occurrence, without the
\* empty tags, joined by single spaces; ["#Go", "go", "#GO"] gives "#Go".
C6_HashtagBlockDedup ==
    (Formatted(instagram) /\ "hashtag_block" \in DOMAIN result /\ args.hashtags # NoHashtags) =>
        LET first == SortedRange(FirstSeen(args.hashtags), 1, Len(args.hashtags))
        IN  /\ result.hashtag_block
                  = Join([k \in 1..Len(first) |-> TagOf(args.hashtags, first[k])], <<" ">>)
            /\ (args.hashtags = << <<"#","G","o">>, <<"g","o">>, <<"#","G","O">> >>
                    => result.hashtag_block = <<"#","G","o">>)

\* C6 witness: the list ["#Go", "go", "#GO"] has been formatted.
C6_Witness ==
    /\ Formatted(instagram)
    /\ args.hashtags = << <<"#","G","o">>, <<"g","o">>, <<"#","G","O">> >>
    /\ result.hashtag_block = <<"#","G","o">>

(***************************************************************************)
(* Properties of the refinement step                                       *)
(***************************************************************************)

\* C2: maybe_refine decides "needs refinement" exactly when the score is
\* present and strictly below 0.90: not for an absent score, not at 0.90
\* itself, and for every present score below it.
C2_RefinementDecision ==
    (tool = "maybe_refine" /\ returned) =>
        /\ result.needs_refinement
              <=> (args.base_score # None /\ args.base_score < 90)
        /\ (args.base_score = None => ~result.needs_refinement)
        /\ (args.base_score = 90 => ~result.needs_refinement)
        /\ (args.base_score = 89 => result.needs_refinement)

\* C2 witness: the decision has been taken at the boundary score 0.90.
C2_Witness ==
    /\ tool = "maybe_refine" /\ returned
    /\ args.base_score = 90
    /\ ~result.needs_refinement

\* The number of run_agent invocations made to rewrite a platform's text.
RewriteCalls(platform) ==
    Len(SelectSeq(events,
            LAMBDA e : e.kind = "run_agent" /\ e.place = "rewrite_" \o platform))

\* The initial scorings of a platform logged so far.
InitialScorings(platform) ==
    SelectSeq(events, LAMBDA e : e.kind = "score" /\ e.place = "score_" \o platform)

\* The platform was scored initially, with a score present and below 0.90.
ScoredLow(platform) ==
    /\ InitialScorings(platform) # <<>>
    /\ InitialScorings(platform)[1].score # None
    /\ InitialScorings(platform)[1].score < 90

\* run_content_repurposer has returned.
RunReturned == pc \in {"persist", "done"} /\ user_brief # NoneStr

\* C3 (as the spec states it): in one run each of linkedin, instagram and
\* email gets exactly one rewrite call if its initial score is present and
\* below 0.90 and none otherwise, and never more than one.
C3_OneRewritePerLowPlatform ==
    \A p \in {"linkedin", "instagram", "email"} :
        /\ RewriteCalls(p) <= 1
        /\ (RunReturned => (RewriteCalls(p) = 1 <=> ScoredLow(p)))

\* C3 (amended): in one run each of linkedin and email gets exactly one
\* rewrite call if its initial score is present and below 0.90 and none
\* otherwise; instagram never gets a rewrite call, whatever its score; no
\* platform is rewritten more than once.
C3_OneRewritePerLowLinkedinEmail ==
    /\ \A p \in {"linkedin", "email"} :
          /\ RewriteCalls(p) <= 1
          /\ (RunReturned => (RewriteCalls(p) = 1 <=> ScoredLow(p)))
    /\ RewriteCalls("instagram") = 0

\* C3 witness: a run has ended with linkedin rewritten once, email left alone
\* for want of a score, and instagram left alone although it scored low.
C3_Witness ==
    /\ pc = "done" /\ user_brief # NoneStr
    /\ RewriteCalls("linkedin") = 1
    /\ RewriteCalls("email") = 0
    /\ ~ScoredLow("email")
    /\ ScoredLow("instagram")

\* C9: a text that carries the marker run_agent embeds when it fails has
\* clarity 0.3; so has the linkedin text run_agent returned after its retries
\* were exhausted, once it is scored.
C9_FallbackOutputHasLowClarity ==
    (/\ pc = "score_instagram"
     /\ StartsWith(texts.linkedin, FALLBACK_OUTPUT_HEAD)
     /\ scores["linkedin"].score # None)
        => scores["linkedin"].dimensions["clarity"] = 30

\* C10: at every point of a run each platform's refinement record is the
\* initial one (old None, new None, delta 0.0) or has old and new present
\* and delta = new - old; no delta other than 0.0 goes with an absent old
\* or new.
C10_RefinementRecords ==
    run_state # <<>> =>
        \A p \in {"linkedin", "instagram", "email"} :
            LET r == run_state.refinements[p]
            IN  /\ \/ r = [old |-> None, new |-> None, delta |-> 0]
                   \/ (r.old # None /\ r.new # None /\ r.delta = r.new - r.old)
                /\ ((r.old = None \/ r.new = None) => r.delta = 0)

\* C10 witness: a rewrite that scored lower than the original was recorded.
C10_Witness ==
    /\ run_state # <<>>
    /\ run_state.refinements["email"].old # None
    /\ run_state.refinements["email"].delta < 0
    /\ run_state.refinements["linkedin"].old = None

(***************************************************************************)
(* Properties of run_agent                                                 *)
(***************************************************************************)

\* The delays run_agent has slept after n failed attempts: 1, 2, ..., n.
LinearDelays(n) == [i \in 1..n |-> i]

\* A step in which run_agent returns to its caller.
RunAgentReturns == pc \in AgentCalls /\ attempt >= 1 /\ attempt' = 0

\* C11: an invocation of run_agent makes at most 3 attempts; after each failed
\* attempt, and only then, it sleeps a delay equal to the attempt's number
\* (1, 2, 3) and goes on to the next attempt; it returns the stripped content
\* of the first attempt that succeeds, with no attempt after it; and it
\* returns the text beginning "[FALLBACK OUTPUT]" if and only if all 3
\* attempts have failed.
C11_RunAgentRetries ==
    [][/\ (pc \in AgentCalls /\ attempt >= 1) =>
              /\ attempt <= 3 + 1
              /\ slept = LinearDelays(attempt - 1)
       /\ (attempt >= 1 /\ attempt' # attempt) =>
              \/ attempt' = attempt + 1 /\ attempt <= 3
                   /\ slept' = Append(slept, attempt) /\ pc' = pc
              \/ attempt' = 0
       /\ RunAgentReturns =>
              /\ (attempt <= 3) =>
                     /\ agent_result' \in {Strip(c) : c \in Contents(pc)}
                     /\ Len(slept) = attempt - 1
              /\ (attempt = 3 + 1) =>
                     /\ slept = <<1, 2, 3>>
                     /\ agent_result' = FallbackOutput(last_error)
              /\ StartsWith(agent_result', FALLBACK_OUTPUT_HEAD) <=> Len(slept) = 3
      ]_vars

\* C11 witness: an invocation has returned the fallback text, and the next
\* one has slept 1 and 2 after two failed attempts and makes its third.
C11_Witness ==
    /\ agent_result = FallbackOutput(TIMEOUT)
    /\ pc = "strategy"
    /\ attempt = 3
    /\ slept = <<1, 2>>

(***************************************************************************)
(* Properties of the evaluation CSV file                                   *)
(***************************************************************************)

\* The executions of main that have appended their row.
RunsCompleted == IF pc = "done" THEN args.runs ELSE args.runs - 1

\* The row is numbered n: its first cell is the decimal numeral of n.
RowNumbered(row, n) ==
    /\ IsIntLiteral(row[1])
    /\ int_of_str(row[1]) = n
    /\ \A i \in 1..Len(row[1]) : row[1][i] \in Digits

\* The file holds an id in its last row: it has more than one row, and the
\* first cell of the last one is a number.
HoldsLastId(file) ==
    /\ file # NoFile
    /\ Len(file) > 1
    /\ file[Len(file)] # <<>>
    /\ IsIntLiteral(file[Len(file)][1])

StepName(e) ==
    IF e.kind = "csv_append" THEN "csv_append" ELSE e.kind \o ":" \o e.place

\* The model calls, scorings and CSV append of the run so far, in order.
StepsTaken == [i \in 1..Len(events) |-> StepName(events[i])]

IsPrefix(s, t) == Len(s) <= Len(t) /\ s = SubSeq(t, 1, Len(s))

InitialScoringSteps ==
    <<"score:score_linkedin", "score:score_instagram", "score:score_email">>

\* The optional rewrite of a platform: no call, a call whose text is not
\* scored, or a call followed by the scoring of its text.
RewriteSteps(platform) ==
    { <<>>,
      <<"run_agent:rewrite_" \o platform>>,
      <<"run_agent:rewrite_" \o platform, "score:rewrite_" \o platform>> }

\* The complete runs that begin with the model calls first_calls, go on with
\* the three initial scorings and the optional rewrites, and end with the
\* CSV append.
OrderedRuns(first_calls) ==
    { first_calls \o InitialScoringSteps \o r1 \o r2 \o <<"csv_append">> :
        r1 \in RewriteSteps("linkedin"), r2 \in RewriteSteps("email") }

\* The run so far follows the order, and a finished run is complete.
FollowsOrder(first_calls) ==
    /\ \E run \in OrderedRuns(first_calls) : IsPrefix(StepsTaken, run)
    /\ (pc = "done" /\ user_brief # NoneStr) => StepsTaken \in OrderedRuns(first_calls)

\* C13 (as the spec states it): the model calls of a run are, in this order
\* and with no other model call, strategy, base draft, the linkedin, instagram
\* and email variants, then the optional rewrites; the three initial scorings
\* come after the three variant calls and before any rewrite call, the CSV
\* append after every scoring and rewrite.
C13_CallOrderFromStrategy ==
    FollowsOrder(<<"run_agent:strategy", "run_agent:draft", "run_agent:linkedin",
                   "run_agent:instagram", "run_agent:email">>)

\* C13 (amended): the model calls of a run are, in this order and with no
\* other model call, the controller's plan, strategy, base draft, the
\* linkedin, instagram and email variants, then the optional rewrites; the
\* three initial scorings come after the three variant calls and before any
\* rewrite call, the CSV append after every scoring and rewrite.
C13_CallOrderFromController ==
    FollowsOrder(<<"run_agent:controller", "run_agent:strategy", "run_agent:draft",
                   "run_agent:linkedin", "run_agent:instagram", "run_agent:email">>)

\* C13 witness: a run with both rewrites, the first one scored, has appended
\* its row.
C13_Witness ==
    /\ pc = "done"
    /\ Len(events) = 13
    /\ events[10].kind = "run_agent" /\ events[10].place = "rewrite_linkedin"
    /\ events[11].kind = "score"
    /\ events[12].kind = "run_agent" /\ events[12].place = "rewrite_email"
    /\ events[13].kind = "csv_append"

(***************************************************************************)
(* Properties of the refinement step                                       *)
(***************************************************************************)

\* C14: when run_content_repurposer has returned, the stored score of each
\* platform, if present, is the result of quality_and_reach_scorer on the
\* text stored in run_state for that platform, whichever way the refinement
\* step went.
C14_ScoreBelongsToText ==
    RunReturned =>
        \A p \in {"linkedin", "instagram", "email"} :
            scores[p].score # None =>
                scores[p] = quality_and_reach_scorer(PlatformId[p], run_state[p])

\* C14 witness: a run has returned with the linkedin rewrite accepted and
\* the email rewrite called but not accepted, all three scores present.
C14_Witness ==
    /\ RunReturned
    /\ refinements_made = <<"linkedin">>
    /\ run_state["linkedin"] # texts["linkedin"]
    /\ RewriteCalls("email") = 1
    /\ \A p \in {"linkedin", "instagram", "email"} : scores[p].score # None

\* run_agent returns the rewrite of a platform to maybe_refine.
RewriteReturns(platform) ==
    pc = "rewrite_" \o platform /\ attempt >= 1 /\ attempt' = 0

\* In this step the rewrite was scored and the scoring raised.
RescoringFails ==
    /\ Len(events') = Len(events) + 1
    /\ events'[Len(events')].kind = "score"
    /\ events'[Len(events')].score = None

\* C15: when the rewrite call yields an empty text or a text that starts with
\* "[FALLBACK", or when scoring the rewrite fails, maybe_refine leaves the
\* platform's text, its entry in scores, its refinement record and the list
\* of refinements made as they were.
C15_RejectedRewriteChangesNothing ==
    [][\A p \in {"linkedin", "email"} :
          (/\ RewriteReturns(p)
           /\ \/ agent_result' = <<>>
              \/ StartsWith(agent_result', <<"[","F","A","L","L","B","A","C","K">>)
              \/ RescoringFails)
          => /\ run_state'[p] = run_state[p]
             /\ scores'[p] = scores[p]
             /\ run_state'.refinements[p] = run_state.refinements[p]
             /\ refinements_made' = refinements_made
      ]_vars

\* C15 witness: the scoring of the linkedin rewrite has failed, and text,
\* score and record of linkedin are those of before the rewrite.
C15_Witness ==
    /\ pc = "refine_email"
    /\ events[Len(events)].kind = "score"
    /\ events[Len(events)].place = "rewrite_linkedin"
    /\ events[Len(events)].score = None
    /\ run_state["linkedin"] = texts["linkedin"]
    /\ scores["linkedin"].score # None
    /\ refinements_made = <<>>

(***************************************************************************)
(* Properties of the base draft                                            *)
(***************************************************************************)

\* The prompts of the platform-variant calls made so far.
VariantPrompts ==
    SelectSeq(events,
        LAMBDA e : e.kind = "run_agent" /\ e.place \in {"linkedin", "instagram", "email"})

\* The text is usable as a draft: not empty, not starting with "[FALLBACK".
UsableDraft(text) ==
    /\ text # NoneStr
    /\ text # <<>>
    /\ ~StartsWith(text, <<"[","F","A","L","L","B","A","C","K">>)

\* C16: whatever the base-draft call returns, the base draft stored in
\* run_state and inserted into the platform-variant prompts is never empty
\* and never starts with "[FALLBACK"; an empty or fallback answer is replaced
\* by a text built from the user brief, any other answer is kept.
C16_BaseDraftUsable ==
    /\ (run_state # <<>> /\ run_state.base_draft # NoneStr) =>
            UsableDraft(run_state.base_draft)
    /\ \A i \in 1..Len(VariantPrompts) :
            /\ VariantPrompts[i].prompt.inserted = <<run_state.base_draft>>
            /\ UsableDraft(VariantPrompts[i].prompt.inserted[1])
    /\ (pc = "linkedin" /\ attempt = 0) =>
            run_state.base_draft =
                IF UsableDraft(agent_result) THEN agent_result
                ELSE BRIEF_DRAFT_HEAD \o user_brief

\* C16 witness: the answer of the base-draft call was replaced, and the three
\* variant prompts hold the text built from the brief.
C16_Witness ==
    /\ Len(VariantPrompts) = 3
    /\ StartsWith(run_state.base_draft, BRIEF_DRAFT_HEAD)
    /\ \E i \in 1..Len(events) :
          /\ events[i].kind = "run_agent" /\ events[i].place = "draft"
    /\ pc = "email" /\ attempt = 1

(***************************************************************************)
(* Termination of main                                                     *)
(***************************************************************************)

\* The run_agent invocations made so far.
ModelCalls == SelectSeq(events, LAMBDA e : e.kind = "run_agent")

\* The CSV appends made so far.
CsvAppends == SelectSeq(events, LAMBDA e : e.kind = "csv_append")

\* C17: every execution of main ends, whichever model calls fail; one that
\* read a brief with something in it has by then made between 6 and 8
\* run_agent invocations, none of more than 3 attempts, and has appended
\* exactly one row to the CSV file; one that read an empty or whitespace-only
\* line has made no model call and has appended no row.
C17_MainTerminates ==
    /\ <>(pc = "done")
    /\ [](attempt <= 3 + 1 /\ Len(slept) <= 3)
    /\ [](user_brief # NoneStr => ~IsBlank(user_brief))
    /\ [](user_brief = NoneStr =>
            /\ events = <<>>
            /\ csv_file = NoFile)
    /\ []((pc = "done" /\ user_brief # NoneStr) =>
            /\ Len(ModelCalls) \in 6..8
            /\ Len(CsvAppends) = 1
            /\ events[Len(events)].kind = "csv_append"
            /\ Len(csv_file) = 2)
    /\ [](pc # "done" => CsvAppends = <<>> /\ csv_file = NoFile)

\* C17 witness: an execution has ended after 8 run_agent invocations, the
\* last of which failed 3 times, with its row appended.
C17_Witness ==
    /\ pc = "done"
    /\ Len(ModelCalls) = 8
    /\ agent_result = FallbackOutput(TIMEOUT)
    /\ Len(csv_file) = 2

====
